---- MODULE Spec2Model ----
(***************************************************************************)
(* cfg_aliases: the cfg_aliases! macro of src/src/lib.rs.                  *)
(*                                                                         *)
(* The macro is a token rewriting system that runs in the compiler, and    *)
(* the code it expands to runs in the build script.  The model has both:   *)
(*   - expansion: every macro invocation is a node of the condition being  *)
(*     built, and each rule (arm) of the macro is one action that rewrites *)
(*     the leftmost pending invocation;                                    *)
(*   - the build script: one `if <condition> { println!(..) }` per alias,  *)
(*     in declaration order, reading the process environment.              *)
(* A string is a sequence of one-character strings, so that to_uppercase,  *)
(* replace, split and stringify! are computed and not assumed.             *)
(***************************************************************************)
EXTENDS Naturals, Sequences, FiniteSets, TLC

VARIABLES
    batch,      \* the declarations `alias: { config }` given to cfg_aliases!
    conds,      \* per alias, the condition of its `if`, under expansion
    pc,         \* "start" | "expand" | "error" | "run" | "done"
    env,        \* the process environment the build script runs in
    idx,        \* the `if` statement the build script is at
    stdout      \* the lines printed so far

vars == <<batch, conds, pc, env, idx, stdout>>

----------------------------------------------------------------------------
(* Bounds of the model.                                                    *)

\* the longest batch of the reference-resolution family
MaxAliases == 3

\* the longest argument list given to @parser_clause in SpecClause
MaxTokens == 5

\* the compiler's macro recursion limit (rustc's default is larger; every
\* expansion of the model that ends at all ends well below this one)
RecursionLimit == 40

----------------------------------------------------------------------------
(* Strings.                                                                *)

LowerAlphabet ==
    << "a", "b", "c", "d", "e", "f", "g", "h", "i", "j", "k", "l", "m",
       "n", "o", "p", "q", "r", "s", "t", "u", "v", "w", "x", "y", "z" >>

UpperAlphabet ==
    << "A", "B", "C", "D", "E", "F", "G", "H", "I", "J", "K", "L", "M",
       "N", "O", "P", "Q", "R", "S", "T", "U", "V", "W", "X", "Y", "Z" >>

Quote == "\""

\* char::to_uppercase on the characters the model uses
UpperChar(c) ==
    IF \E i \in 1..Len(LowerAlphabet) : LowerAlphabet[i] = c
    THEN UpperAlphabet[CHOOSE i \in 1..Len(LowerAlphabet) : LowerAlphabet[i] = c]
    ELSE c

\* str::to_uppercase
to_uppercase(s) == [i \in 1..Len(s) |-> UpperChar(s[i])]

\* str::replace(from, to) for a one-character pattern
RECURSIVE replace(_, _, _)
replace(s, from, to) ==
    IF s = <<>> THEN <<>>
    ELSE (IF Head(s) = from THEN to ELSE <<Head(s)>>) \o replace(Tail(s), from, to)

\* the characters of s before its first sep (all of s when it has none)
RECURSIVE UpTo(_, _)
UpTo(s, sep) ==
    IF s = <<>> \/ Head(s) = sep THEN <<>> ELSE <<Head(s)>> \o UpTo(Tail(s), sep)

\* str::split(sep), collected: "" splits into one empty piece
RECURSIVE split(_, _)
split(s, sep) ==
    LET first == UpTo(s, sep) IN
    IF Len(first) = Len(s) THEN <<s>>
    ELSE <<first>> \o split(SubSeq(s, Len(first) + 2, Len(s)), sep)

\* stringify!($x:ident): the identifier's characters
stringify_ident(name) == name

\* stringify!($x:expr) of a string literal: its source text, quotes included
stringify_literal(value) == <<Quote>> \o value \o <<Quote>>

\* format!("CARGO_CFG_{}", s) and format!("CARGO_FEATURE_{}", s)
format_cfg(s) == <<"CARGO_CFG_">> \o s

format_feature(s) == <<"CARGO_FEATURE_">> \o s

\* format!("cargo:rustc-cfg={}", stringify!($alias)), the printed line
format_rustc_cfg(alias) == <<"cargo:rustc-cfg=">> \o stringify_ident(alias)

----------------------------------------------------------------------------
(* The process environment: a function from variable names to values.      *)

\* std::env::var: Ok(value) when the variable is set, Err otherwise
env_var(e, name) ==
    IF name \in DOMAIN e THEN [ok |-> TRUE, v |-> e[name]]
    ELSE [ok |-> FALSE, v |-> <<>>]

\* cfg_is_set with a fault: an enabled feature of that name counts as well
cfg_is_set_or_feature(e, cfgname) ==
    LET name == replace(to_uppercase(stringify_ident(cfgname)), "-", <<"_">>)
        r == env_var(e, <<"CARGO_FEATURE_">> \o name)
    IN  env_var(e, <<"CARGO_CFG_">> \o name).ok \/ (IF r.ok THEN r.v = <<"1">> ELSE FALSE)

\* the body of the @cfg_is_set arm
cfg_is_set(e, cfgname) ==
    env_var(e, format_cfg(
        replace(to_uppercase(stringify_ident(cfgname)), "-", <<"_">>))).ok

\* the body of the @cfg_has_feature arm
cfg_has_feature(e, feature) ==
    LET r == env_var(e, format_feature(
                 replace(replace(to_uppercase(stringify_literal(feature)),
                                 "-", <<"_">>), Quote, <<>>)))
    IN  IF r.ok THEN r.v = <<"1">> ELSE FALSE

\* the body of the @cfg_contains arm
cfg_contains(e, cfgname, cfgvalue) ==
    LET r == env_var(e, format_cfg(
                 replace(to_uppercase(stringify_ident(cfgname)), "-", <<"_">>)))
        pieces == split(IF r.ok THEN r.v ELSE <<>>, ",")
    IN  \E i \in 1..Len(pieces) : pieces[i] = cfgvalue

----------------------------------------------------------------------------
(* Token trees.                                                            *)

Ident(v) == [t |-> "ident", v |-> v]

Literal(v) == [t |-> "literal", v |-> v]

Eq == [t |-> "="]

Comma == [t |-> ","]

\* a parenthesised group is one token tree
Paren(toks) == [t |-> "()", toks |-> toks]

IsIdent(tok) == tok.t = "ident"

IsLiteral(tok) == tok.t = "literal"

IsParen(tok) == tok.t = "()"

----------------------------------------------------------------------------
(* The condition of an `if`: a Rust boolean expression whose leaves are    *)
(* the bodies of the three helper arms, with the macro invocations that    *)
(* are still to be expanded.                                               *)

And(args) == [k |-> "&&", args |-> args]

Or(args) == [k |-> "||", args |-> args]

Not(arg) == [k |-> "!", arg |-> arg]

IsSetExpr(cfgname) == [k |-> "is_set", cfgname |-> cfgname]

HasFeatureExpr(feature) == [k |-> "has_feature", feature |-> feature]

ContainsExpr(cfgname, cfgvalue) ==
    [k |-> "contains", cfgname |-> cfgname, cfgvalue |-> cfgvalue]

\* $crate::cfg_aliases!(@parser toks)
Parser(toks, d) == [k |-> "macro", rule |-> "@parser", toks |-> toks, depth |-> d]

\* $crate::cfg_aliases!(@parser_clause op [{grouped}..] [rest] current)
ParserClause(op, grouped, rest, current, d) ==
    [k |-> "macro", rule |-> "@parser_clause", op |-> op, grouped |-> grouped,
     rest |-> rest, current |-> current, depth |-> d]

\* $crate::cfg_aliases!(@parser_emit op {grouped}..)
ParserEmit(op, grouped, d) ==
    [k |-> "macro", rule |-> "@parser_emit", op |-> op, grouped |-> grouped,
     depth |-> d]

\* __cfg_aliases_matcher__!(e)
Matcher(e, d) == [k |-> "macro", rule |-> "matcher", e |-> e, depth |-> d]

\* $crate::cfg_aliases!(@cfg_is_set cfgname)
CfgIsSet(cfgname, d) ==
    [k |-> "macro", rule |-> "@cfg_is_set", cfgname |-> cfgname, depth |-> d]

\* $crate::cfg_aliases!(@cfg_has_feature feature)
CfgHasFeature(feature, d) ==
    [k |-> "macro", rule |-> "@cfg_has_feature", feature |-> feature, depth |-> d]

\* $crate::cfg_aliases!(@cfg_contains cfgname = cfgvalue)
CfgContains(cfgname, cfgvalue, d) ==
    [k |-> "macro", rule |-> "@cfg_contains", cfgname |-> cfgname,
     cfgvalue |-> cfgvalue, depth |-> d]

\* $crate::cfg_aliases!(@with_dollar[$] .. @with_dollar[$] <inner's tokens>):
\* what the catch-all arm makes of an invocation no other arm matches
WithDollar(inner, dollars, d) ==
    [k |-> "macro", rule |-> "@with_dollar", inner |-> inner,
     dollars |-> dollars, depth |-> d]

IsCombinator(t) == t.k \in {"&&", "||"}

RECURSIVE HasMacro(_)
HasMacro(t) ==
    CASE t.k = "macro" -> TRUE
      [] IsCombinator(t) -> \E i \in 1..Len(t.args) : HasMacro(t.args[i])
      [] t.k = "!" -> HasMacro(t.arg)
      [] OTHER -> FALSE

\* the first of a sequence of conditions that holds a macro invocation
FirstWithMacro(ts) ==
    CHOOSE i \in 1..Len(ts) :
        HasMacro(ts[i]) /\ \A j \in 1..(i - 1) : ~HasMacro(ts[j])

\* the leftmost macro invocation of a condition that has one
RECURSIVE Leftmost(_)
Leftmost(t) ==
    CASE t.k = "macro" -> t
      [] IsCombinator(t) -> Leftmost(t.args[FirstWithMacro(t.args)])
      [] OTHER -> Leftmost(t.arg)

\* the condition with its leftmost macro invocation replaced by its expansion
RECURSIVE Rewrite(_, _)
Rewrite(t, new) ==
    CASE t.k = "macro" -> new
      [] IsCombinator(t) ->
            [t EXCEPT !.args = [@ EXCEPT ![FirstWithMacro(t.args)] = Rewrite(@, new)]]
      [] OTHER -> [t EXCEPT !.arg = Rewrite(@, new)]

\* the value of an expanded condition when the build script runs: && and ||
\* go left to right and stop at the first operand that decides them
RECURSIVE Eval(_, _)
Eval(t, e) ==
    CASE t.k = "&&" -> \A i \in 1..Len(t.args) : Eval(t.args[i], e)
      [] t.k = "||" -> \E i \in 1..Len(t.args) : Eval(t.args[i], e)
      [] t.k = "!" -> ~Eval(t.arg, e)
      [] t.k = "is_set" -> cfg_is_set(e, t.cfgname)
      [] t.k = "has_feature" -> cfg_has_feature(e, t.feature)
      [] t.k = "contains" -> cfg_contains(e, t.cfgname, t.cfgvalue)

----------------------------------------------------------------------------
(* The arms of cfg_aliases! and of the matcher it defines: which           *)
(* invocations each matches, and what it expands them to.  rustc tries the *)
(* arms in source order and takes the first that matches.                  *)

kw_all == <<"a", "l", "l">>

kw_any == <<"a", "n", "y">>

kw_not == <<"n", "o", "t">>

kw_feature == <<"f", "e", "a", "t", "u", "r", "e">>

\* (@cfg_is_set $cfgname:ident)
cfg_is_set_arm(inv) == IsSetExpr(inv.cfgname)

\* (@cfg_has_feature $feature:expr)
cfg_has_feature_arm(inv) == HasFeatureExpr(inv.feature)

\* (@cfg_contains $cfgname:ident = $cfgvalue:expr)
cfg_contains_arm(inv) == ContainsExpr(inv.cfgname, inv.cfgvalue)

\* (@parser_emit all $({$($grouped:tt)+})+)
MatchesEmit(inv, op) ==
    /\ inv.rule = "@parser_emit"
    /\ inv.op = op
    /\ Len(inv.grouped) > 0
    /\ \A i \in 1..Len(inv.grouped) : Len(inv.grouped[i]) > 0

\* the @parser invocations of an emission, one per group, in order
emit_clauses(inv) ==
    [i \in 1..Len(inv.grouped) |-> Parser(inv.grouped[i], inv.depth + 1)]

parser_emit_all(inv) == And(emit_clauses(inv))

parser_emit_any(inv) == Or(emit_clauses(inv))

\* (@parser_clause $op:ident [$({$($grouped:tt)+})*] [, $($rest:tt)*] $($current:tt)+)
MatchesClauseComma(inv) ==
    /\ inv.rule = "@parser_clause"
    /\ Len(inv.rest) > 0
    /\ Head(inv.rest) = Comma
    /\ Len(inv.current) > 0

parser_clause_comma(inv) ==
    ParserClause(inv.op, Append(inv.grouped, inv.current), Tail(inv.rest), <<>>,
                 inv.depth + 1)

\* (@parser_clause $op:ident [$({$($grouped:tt)+})*] [$tok:tt $($rest:tt)*] $($current:tt)*)
MatchesClauseToken(inv) ==
    /\ inv.rule = "@parser_clause"
    /\ Len(inv.rest) > 0
    /\ ~MatchesClauseComma(inv)

\* parser_clause_token with a fault: `$tok $($current)*`, the token put first
parser_clause_token_front(inv) ==
    [k |-> "macro", rule |-> "@parser_clause", op |-> inv.op, grouped |-> inv.grouped,
     rest |-> Tail(inv.rest), current |-> <<Head(inv.rest)>> \o inv.current,
     depth |-> inv.depth + 1]

parser_clause_token(inv) ==
    ParserClause(inv.op, inv.grouped, Tail(inv.rest),
                 Append(inv.current, Head(inv.rest)), inv.depth + 1)

\* (@parser_clause $op:ident [$({$($grouped:tt)+})*] [] $($current:tt)+)
MatchesClauseEnd(inv) ==
    /\ inv.rule = "@parser_clause"
    /\ Len(inv.rest) = 0
    /\ Len(inv.current) > 0

parser_clause_end(inv) ==
    ParserEmit(inv.op, Append(inv.grouped, inv.current), inv.depth + 1)

\* (@parser all($($tokens:tt)+)), and the same for any and not
MatchesParserCall(inv, kw) ==
    /\ inv.rule = "@parser"
    /\ Len(inv.toks) = 2
    /\ inv.toks[1] = Ident(kw)
    /\ IsParen(inv.toks[2])
    /\ Len(inv.toks[2].toks) > 0

parser_all(inv) == ParserClause(kw_all, <<>>, inv.toks[2].toks, <<>>, inv.depth + 1)

parser_any(inv) == ParserClause(kw_any, <<>>, inv.toks[2].toks, <<>>, inv.depth + 1)

parser_not(inv) == Not(Parser(inv.toks[2].toks, inv.depth + 1))

\* (@parser feature = $value:expr), for a string literal value
MatchesParserFeature(inv) ==
    /\ inv.rule = "@parser"
    /\ Len(inv.toks) = 3
    /\ inv.toks[1] = Ident(kw_feature)
    /\ inv.toks[2] = Eq
    /\ IsLiteral(inv.toks[3])

parser_feature(inv) == CfgHasFeature(inv.toks[3].v, inv.depth + 1)

\* (@parser $key:ident = $value:expr), for a string literal value
MatchesParserEquals(inv) ==
    /\ inv.rule = "@parser"
    /\ Len(inv.toks) = 3
    /\ IsIdent(inv.toks[1])
    /\ inv.toks[2] = Eq
    /\ IsLiteral(inv.toks[3])
    /\ ~MatchesParserFeature(inv)

parser_equals(inv) == CfgContains(inv.toks[1].v, inv.toks[3].v, inv.depth + 1)

\* (@parser $e:ident)
MatchesParserIdent(inv) ==
    /\ inv.rule = "@parser"
    /\ Len(inv.toks) = 1
    /\ IsIdent(inv.toks[1])

parser_ident(inv) == Matcher(inv.toks[1].v, inv.depth + 1)

\* HasArm with a fault: the `( $e:ident )` arm written before the alias arms
\* takes every identifier
HasArm_after_fallback(b, e) == FALSE

\* __cfg_aliases_matcher__ has one arm `( $alias ) => ..` per declaration of
\* the batch, in declaration order, and then the `( $e:ident )` arm
HasArm(b, e) == \E i \in 1..Len(b) : b[i].alias = e

\* MatchingArm with a fault: the last arm whose alias is e
MatchingArm_last(b, e) ==
    CHOOSE i \in 1..Len(b) : b[i].alias = e /\ \A j \in (i + 1)..Len(b) : b[j].alias # e

\* the arm that takes e: the first one whose alias is e
MatchingArm(b, e) ==
    CHOOSE i \in 1..Len(b) : b[i].alias = e /\ \A j \in 1..(i - 1) : b[j].alias # e

MatchesMatcherAlias(b, inv) == inv.rule = "matcher" /\ HasArm(b, inv.e)

\* matcher_alias with a fault: the alias arm written with the body of the
\* `( $e:ident )` arm
matcher_alias_is_set(b, inv) ==
    [k |-> "macro", rule |-> "@cfg_is_set", cfgname |-> inv.e, depth |-> inv.depth + 1]

matcher_alias(b, inv) == Parser(b[MatchingArm(b, inv.e)].config, inv.depth + 1)

MatchesMatcherFallback(b, inv) == inv.rule = "matcher" /\ ~HasArm(b, inv.e)

matcher_fallback(inv) == CfgIsSet(inv.e, inv.depth + 1)

\* ($($tokens:tt)*): what no arm above matches.  It puts @with_dollar[$]
\* before the tokens, and the @with_dollar arm wants `alias : { .. }` next,
\* never a `@`, so the new invocation is one for the catch-all again.
MatchesCatchAll(b, inv) ==
    \/ inv.rule = "@with_dollar"
    \/ /\ inv.rule = "@parser"
       /\ ~MatchesParserCall(inv, kw_all)
       /\ ~MatchesParserCall(inv, kw_any)
       /\ ~MatchesParserCall(inv, kw_not)
       /\ ~MatchesParserFeature(inv)
       /\ ~MatchesParserEquals(inv)
       /\ ~MatchesParserIdent(inv)
    \/ /\ inv.rule = "@parser_clause"
       /\ ~MatchesClauseComma(inv)
       /\ ~MatchesClauseToken(inv)
       /\ ~MatchesClauseEnd(inv)
    \/ /\ inv.rule = "@parser_emit"
       /\ ~MatchesEmit(inv, kw_all)
       /\ ~MatchesEmit(inv, kw_any)

catch_all(inv) ==
    IF inv.rule = "@with_dollar"
    THEN WithDollar(inv.inner, inv.dollars + 1, inv.depth + 1)
    ELSE WithDollar(inv, 1, inv.depth + 1)

\* (@with_dollar[$dol:tt] $( $alias:ident : { $($config:tt)* } ),* $(,)?):
\* the conditions of the `if` statements it writes, one per declaration
with_dollar(b) == [i \in 1..Len(b) |-> Parser(b[i].config, 2)]

\* println with a fault: the line put before the others
println_front(out, line) == <<line>> \o out

\* println!: one more line on the standard output
println(out, line) == Append(out, line)

----------------------------------------------------------------------------
(* The inputs of the model: identifiers and literals, declarations,        *)
(* batches and environments.                                               *)

s_wasm == <<"w", "a", "s", "m">>

s_dummy == <<"d", "u", "m", "m", "y">>

s_foo == <<"f", "o", "o">>

s_unix == <<"u", "n", "i", "x">>

s_windows == <<"w", "i", "n", "d", "o", "w", "s">>

s_android == <<"a", "n", "d", "r", "o", "i", "d">>

s_macos == <<"m", "a", "c", "o", "s">>

s_linux == <<"l", "i", "n", "u", "x">>

s_surfman == <<"s", "u", "r", "f", "m", "a", "n">>

s_glutin == <<"g", "l", "u", "t", "i", "n">>

s_wgl == <<"w", "g", "l">>

s_target_arch == <<"t", "a", "r", "g", "e", "t", "_", "a", "r", "c", "h">>

s_target_os == <<"t", "a", "r", "g", "e", "t", "_", "o", "s">>

s_wasm32 == <<"w", "a", "s", "m", "3", "2">>

s_x == <<"x">>

s_y == <<"y">>

s_a == <<"a">>

s_b == <<"b">>

s_a_b == <<"a", "-", "b">>

s_1 == <<"1">>

s_0 == <<"0">>

Decl(alias, config) == [alias |-> alias, config |-> config]

\* name(args), a call of a combinator
Call(kw, args) == <<Ident(kw), Paren(args)>>

\* key = "value", as three tokens
KeyValue(key, value) == <<Ident(key), Eq, Literal(value)>>

\* the declarations the reference-resolution batches are made of: the first
\* two are the wasm and dummy of the documentation, the others refer back,
\* forward and to themselves, and redeclare both names
RefDecls ==
    { Decl(s_wasm, KeyValue(s_target_arch, s_wasm32)),
      Decl(s_dummy, Call(kw_not, <<Ident(s_wasm)>>)),
      Decl(s_wasm, <<Ident(s_dummy)>>),
      Decl(s_dummy, <<Ident(s_wasm)>>),
      Decl(s_dummy, <<Ident(s_foo)>>),
      Decl(s_wasm, KeyValue(kw_feature, s_foo)),
      Decl(s_dummy, <<Ident(s_dummy)>>) }

RefBatches == UNION { [1..n -> RefDecls] : n \in 0..MaxAliases }

\* foo, feature = "a"
FooFeatureA == <<Ident(s_foo), Comma>> \o KeyValue(kw_feature, s_a)

\* not(any(foo, all(feature = "a-b", target_arch = "wasm32")))
Nested ==
    Call(kw_not,
         Call(kw_any,
              <<Ident(s_foo), Comma>>
              \o Call(kw_all, KeyValue(kw_feature, s_a_b) \o <<Comma>>
                              \o KeyValue(s_target_arch, s_wasm32))))

\* configurations of one alias that exercise the expression grammar
ExprConfigs ==
    { Call(kw_any, KeyValue(kw_feature, s_a) \o <<Comma>> \o KeyValue(kw_feature, s_b)),
      Call(kw_all, <<>>),
      Call(kw_any, <<>>),
      Call(kw_all, FooFeatureA),
      Call(kw_any, FooFeatureA),
      Call(kw_all, FooFeatureA \o <<Comma>>),
      Call(kw_any, FooFeatureA \o <<Comma>>),
      KeyValue(s_target_arch, <<>>),
      KeyValue(s_target_arch, s_x),
      Nested,
      <<>> }

\* the argument list without its trailing comma, when it has one
StripTrailingComma(config) ==
    IF /\ Len(config) = 2
       /\ IsParen(config[2])
       /\ Len(config[2].toks) > 0
       /\ config[2].toks[Len(config[2].toks)] = Comma
    THEN <<config[1], Paren(SubSeq(config[2].toks, 1, Len(config[2].toks) - 1))>>
    ELSE config

\* x alone, and x beside y declared as x without its trailing comma
ExprBatches ==
    { <<Decl(s_x, c)>> : c \in ExprConfigs }
    \cup { <<Decl(s_x, c), Decl(s_y, StripTrailingComma(c))>> :
             c \in { d \in ExprConfigs : StripTrailingComma(d) # d } }

\* the batch of the documentation
DocBatch ==
    << Decl(s_wasm, KeyValue(s_target_arch, s_wasm32)),
       Decl(s_android, KeyValue(s_target_os, s_android)),
       Decl(s_macos, KeyValue(s_target_os, s_macos)),
       Decl(s_linux, KeyValue(s_target_os, s_linux)),
       Decl(s_surfman,
            Call(kw_all, <<Ident(s_unix), Comma>> \o KeyValue(kw_feature, s_surfman)
                         \o <<Comma>> \o Call(kw_not, <<Ident(s_wasm)>>))),
       Decl(s_glutin,
            Call(kw_all, KeyValue(kw_feature, s_glutin)
                         \o <<Comma>> \o Call(kw_not, <<Ident(s_wasm)>>))),
       Decl(s_wgl,
            Call(kw_all, <<Ident(s_windows), Comma>> \o KeyValue(kw_feature, s_wgl)
                         \o <<Comma>> \o Call(kw_not, <<Ident(s_wasm)>>))),
       Decl(s_dummy,
            Call(kw_not,
                 Call(kw_any, <<Ident(s_wasm), Comma, Ident(s_glutin), Comma,
                                Ident(s_wgl), Comma, Ident(s_surfman)>>))) >>

Batches == RefBatches \cup ExprBatches \cup {DocBatch}

\* the environment that sets exactly the given <<name, value>> pairs
EnvOf(pairs) ==
    [n \in {p[1] : p \in pairs} |-> (CHOOSE p \in pairs : p[1] = n)[2]]

CFG(name) == format_cfg(replace(to_uppercase(name), "-", <<"_">>))

FEATURE(name) == format_feature(replace(to_uppercase(name), "-", <<"_">>))

\* environments cargo can give a build script, and a few it would not
\* (a feature variable that is not "1")
Envs ==
    { EnvOf({}),
      EnvOf({<<CFG(s_target_arch), s_wasm32>>}),
      EnvOf({<<CFG(s_target_arch), s_x \o <<",">> \o s_wasm32>>}),
      EnvOf({<<CFG(s_target_arch), s_wasm32 \o s_x>>, <<FEATURE(s_a_b), s_1>>}),
      EnvOf({<<CFG(s_target_arch), <<>> >>, <<FEATURE(s_a), s_0>>}),
      EnvOf({<<FEATURE(s_foo), s_1>>}),
      EnvOf({<<CFG(s_foo), <<>> >>}),
      EnvOf({<<CFG(s_wasm), <<>> >>, <<FEATURE(s_a), s_1>>}),
      EnvOf({<<FEATURE(s_b), s_1>>}),
      EnvOf({<<CFG(s_target_arch), s_wasm32>>, <<CFG(s_foo), <<>> >>,
             <<FEATURE(s_foo), s_1>>, <<CFG(s_dummy), <<>> >>}),
      EnvOf({<<CFG(s_unix), <<>> >>, <<CFG(s_target_os), s_linux>>,
             <<FEATURE(s_surfman), s_1>>}) }

----------------------------------------------------------------------------
(* Expansion.  Each arm is an action on the leftmost macro invocation that *)
(* is still to be expanded; the order in which the compiler takes the      *)
(* invocations does not change what any of them expands to.                *)

Init ==
    /\ batch \in Batches
    /\ conds = <<>>
    /\ pc = "start"
    /\ env = EnvOf({})
    /\ idx = 0
    /\ stdout = <<>>

Expanding == pc = "expand" /\ \E i \in 1..Len(conds) : HasMacro(conds[i])

\* the invocation the next expansion step is about
Cur == Leftmost(conds[FirstWithMacro(conds)])

Expand(new) ==
    /\ conds' = [conds EXCEPT ![FirstWithMacro(conds)] = Rewrite(@, new)]
    /\ UNCHANGED <<batch, pc, env, idx, stdout>>

\* the catch-all arm on the user's cfg_aliases! { .. }, then the
\* @with_dollar arm: the matcher is defined and the `if`s are written
WithDollarArm ==
    /\ pc = "start"
    /\ conds' = with_dollar(batch)
    /\ pc' = "expand"
    /\ UNCHANGED <<batch, env, idx, stdout>>

CfgIsSetArm ==
    /\ Expanding /\ Cur.depth < RecursionLimit
    /\ Cur.rule = "@cfg_is_set"
    /\ Expand(cfg_is_set_arm(Cur))

CfgHasFeatureArm ==
    /\ Expanding /\ Cur.depth < RecursionLimit
    /\ Cur.rule = "@cfg_has_feature"
    /\ Expand(cfg_has_feature_arm(Cur))

CfgContainsArm ==
    /\ Expanding /\ Cur.depth < RecursionLimit
    /\ Cur.rule = "@cfg_contains"
    /\ Expand(cfg_contains_arm(Cur))

ParserEmitAll ==
    /\ Expanding /\ Cur.depth < RecursionLimit
    /\ MatchesEmit(Cur, kw_all)
    /\ Expand(parser_emit_all(Cur))

ParserEmitAny ==
    /\ Expanding /\ Cur.depth < RecursionLimit
    /\ MatchesEmit(Cur, kw_any)
    /\ Expand(parser_emit_any(Cur))

ParserClauseComma ==
    /\ Expanding /\ Cur.depth < RecursionLimit
    /\ MatchesClauseComma(Cur)
    /\ Expand(parser_clause_comma(Cur))

ParserClauseToken ==
    /\ Expanding /\ Cur.depth < RecursionLimit
    /\ MatchesClauseToken(Cur)
    /\ Expand(parser_clause_token(Cur))

ParserClauseEnd ==
    /\ Expanding /\ Cur.depth < RecursionLimit
    /\ MatchesClauseEnd(Cur)
    /\ Expand(parser_clause_end(Cur))

ParserAll ==
    /\ Expanding /\ Cur.depth < RecursionLimit
    /\ MatchesParserCall(Cur, kw_all)
    /\ Expand(parser_all(Cur))

ParserAny ==
    /\ Expanding /\ Cur.depth < RecursionLimit
    /\ MatchesParserCall(Cur, kw_any)
    /\ Expand(parser_any(Cur))

ParserNot ==
    /\ Expanding /\ Cur.depth < RecursionLimit
    /\ MatchesParserCall(Cur, kw_not)
    /\ Expand(parser_not(Cur))

ParserFeature ==
    /\ Expanding /\ Cur.depth < RecursionLimit
    /\ MatchesParserFeature(Cur)
    /\ Expand(parser_feature(Cur))

ParserEquals ==
    /\ Expanding /\ Cur.depth < RecursionLimit
    /\ MatchesParserEquals(Cur)
    /\ Expand(parser_equals(Cur))

ParserIdent ==
    /\ Expanding /\ Cur.depth < RecursionLimit
    /\ MatchesParserIdent(Cur)
    /\ Expand(parser_ident(Cur))

MatcherAlias ==
    /\ Expanding /\ Cur.depth < RecursionLimit
    /\ MatchesMatcherAlias(batch, Cur)
    /\ Expand(matcher_alias(batch, Cur))

MatcherFallback ==
    /\ Expanding /\ Cur.depth < RecursionLimit
    /\ MatchesMatcherFallback(batch, Cur)
    /\ Expand(matcher_fallback(Cur))

CatchAll ==
    /\ Expanding /\ Cur.depth < RecursionLimit
    /\ MatchesCatchAll(batch, Cur)
    /\ Expand(catch_all(Cur))

\* "recursion limit reached while expanding": the build script does not
\* compile, so nothing of it ever runs
RecursionLimitReached ==
    /\ Expanding /\ Cur.depth >= RecursionLimit
    /\ pc' = "error"
    /\ UNCHANGED <<batch, conds, env, idx, stdout>>

----------------------------------------------------------------------------
(* The build script, compiled, runs in some environment.                   *)

RunBuildScript ==
    /\ pc = "expand" /\ ~Expanding
    /\ \E e \in Envs : env' = e
    /\ pc' = "run"
    /\ idx' = 1
    /\ UNCHANGED <<batch, conds, stdout>>

\* if <condition of alias idx> { println!("cargo:rustc-cfg={}", alias) }
IfAlias ==
    /\ pc = "run" /\ idx <= Len(batch)
    /\ stdout' = IF Eval(conds[idx], env)
                 THEN println(stdout, format_rustc_cfg(batch[idx].alias))
                 ELSE stdout
    /\ idx' = idx + 1
    /\ UNCHANGED <<batch, conds, pc, env>>

Exit ==
    /\ pc = "run" /\ idx > Len(batch)
    /\ pc' = "done"
    /\ UNCHANGED <<batch, conds, env, idx, stdout>>

Next ==
    \/ WithDollarArm
    \/ CfgIsSetArm \/ CfgHasFeatureArm \/ CfgContainsArm
    \/ ParserEmitAll \/ ParserEmitAny
    \/ ParserClauseComma \/ ParserClauseToken \/ ParserClauseEnd
    \/ ParserAll \/ ParserAny \/ ParserNot
    \/ ParserFeature \/ ParserEquals \/ ParserIdent
    \/ MatcherAlias \/ MatcherFallback
    \/ CatchAll \/ RecursionLimitReached
    \/ RunBuildScript \/ IfAlias \/ Exit

Spec == Init /\ [][Next]_vars

----------------------------------------------------------------------------
(* The comma-separated list parser on its own: started as                  *)
(* @parser_clause op [] [tokens] on every token list up to MaxTokens, and  *)
(* stepped by its three arms.  The compiler expands every invocation it    *)
(* finds, hence the fairness.                                              *)

ClauseTokens ==
    { Ident(s_foo), Comma, Ident(kw_any), Paren(<<Ident(s_foo), Comma, Ident(s_wasm)>>) }

ArgLists == UNION { [1..n -> ClauseTokens] : n \in 1..MaxTokens }

InitClause ==
    /\ \E op \in {kw_all, kw_any}, toks \in ArgLists :
          /\ batch = <<Decl(s_x, Call(op, toks))>>
          /\ conds = <<ParserClause(op, <<>>, toks, <<>>, 3)>>
    /\ pc = "expand"
    /\ env = EnvOf({})
    /\ idx = 0
    /\ stdout = <<>>

NextClause == ParserClauseComma \/ ParserClauseToken \/ ParserClauseEnd

SpecClause == InitClause /\ [][NextClause]_vars /\ WF_vars(NextClause)

----------------------------------------------------------------------------
(* What the claims are stated in.  None of this is used by the model.      *)

\* the build script compiled and is running, or ran
Ran == pc \in {"run", "done"}

\* the value of alias i's own expression in the environment of the run
Value(i) == Eval(conds[i], env)

Aliases == 1..Len(batch)

\* alias i's expression is the bare identifier n
IsReference(i, n) == batch[i].config = <<Ident(n)>>

\* alias i's expression is not(n)
IsNegatedReference(i, n) == batch[i].config = Call(kw_not, <<Ident(n)>>)

\* the bare identifiers the batch's expressions are, or negate
ReferencedNames ==
    { batch[i].config[1].v :
        i \in { j \in Aliases : Len(batch[j].config) = 1 /\ IsIdent(batch[j].config[1]) } }
    \cup { batch[i].config[2].toks[1].v :
             i \in { j \in Aliases : /\ Len(batch[j].config) = 2
                                      /\ batch[j].config[1] = Ident(kw_not)
                                      /\ IsParen(batch[j].config[2])
                                      /\ Len(batch[j].config[2].toks) = 1
                                      /\ IsIdent(batch[j].config[2].toks[1]) } }

\* the declarations of n, as positions of the batch
Declarations(n) == { j \in Aliases : batch[j].alias = n }

\* the first declaration of n
FirstDeclaration(n) ==
    CHOOSE j \in Declarations(n) : \A k \in Declarations(n) : j <= k

\* the last declaration of n
LastDeclaration(n) ==
    CHOOSE j \in Declarations(n) : \A k \in Declarations(n) : k <= j

\* the variable CARGO_CFG_<NAME> of an identifier is set
FactBound(n) == CFG(n) \in DOMAIN env

\* cargo's mark of an enabled feature: CARGO_FEATURE_<NAME> is "1"
FeatureEnabled(n) == FEATURE(n) \in DOMAIN env /\ env[FEATURE(n)] = s_1

\* the lines of the aliases 1..n whose own expression is true, in order
RECURSIVE TrueLines(_)
TrueLines(n) ==
    IF n = 0 THEN <<>>
    ELSE TrueLines(n - 1)
         \o (IF Value(n) THEN <<format_rustc_cfg(batch[n].alias)>> ELSE <<>>)

----------------------------------------------------------------------------
(* C1: the lines printed are exactly the declared aliases whose own        *)
(* expression is true in the environment of the run, one line each, in     *)
(* declaration order; an alias whose expression is false prints nothing.   *)
(* Nothing is printed before the build script runs, nor when it does not   *)
(* compile.  In particular [x: {any(feature = "a", feature = "b")}] with   *)
(* feature b enabled prints x.                                             *)
C1_EmittedAreTrueAliases ==
    /\ pc \in {"start", "expand", "error"} => stdout = <<>>
    /\ pc = "run" => stdout = TrueLines(idx - 1)
    /\ pc = "done" => stdout = TrueLines(Len(batch))
    /\ ( /\ pc = "done"
         /\ batch = <<Decl(s_x, Call(kw_any, KeyValue(kw_feature, s_a) \o <<Comma>>
                                             \o KeyValue(kw_feature, s_b)))>>
         /\ env = EnvOf({<<FEATURE(s_b), s_1>>}) )
       => stdout = <<format_rustc_cfg(s_x)>>

\* the batch of the documentation on a linux with feature surfman: of its
\* eight aliases, linux and surfman are printed, in that order
C1_Witness ==
    /\ pc = "done"
    /\ batch = DocBatch
    /\ env = EnvOf({<<CFG(s_unix), <<>> >>, <<CFG(s_target_os), s_linux>>,
                    <<FEATURE(s_surfman), s_1>>})
    /\ stdout = <<format_rustc_cfg(s_linux), format_rustc_cfg(s_surfman)>>

----------------------------------------------------------------------------
(* C2: a bare identifier that names an alias declared earlier in the batch *)
(* has the value of that alias's expression (the first declaration of the  *)
(* name) in the same environment, whether or not a raw fact of that name   *)
(* is set; not(name) has the opposite value.  In particular                *)
(* [wasm: {target_arch = "wasm32"}, dummy: {not(wasm)}] with target_arch   *)
(* wasm32 prints wasm only.                                                *)
C2_EarlierAliasResolves ==
    /\ Ran =>
         \A i \in Aliases : \A n \in ReferencedNames :
            (\E j \in Declarations(n) : j < i) =>
               /\ IsReference(i, n) => Value(i) = Value(FirstDeclaration(n))
               /\ IsNegatedReference(i, n) => Value(i) = ~Value(FirstDeclaration(n))
    /\ ( /\ pc = "done"
         /\ batch = <<Decl(s_wasm, KeyValue(s_target_arch, s_wasm32)),
                      Decl(s_dummy, Call(kw_not, <<Ident(s_wasm)>>))>>
         /\ env = EnvOf({<<CFG(s_target_arch), s_wasm32>>}) )
       => stdout = <<format_rustc_cfg(s_wasm)>>

\* dummy refers to the alias wasm, which is false, while the raw fact wasm
\* is set: dummy is false
C2_Witness ==
    /\ pc = "done"
    /\ batch = <<Decl(s_wasm, KeyValue(s_target_arch, s_wasm32)),
                 Decl(s_dummy, <<Ident(s_wasm)>>)>>
    /\ FactBound(s_wasm)
    /\ stdout = <<>>

----------------------------------------------------------------------------
(* C3, as amended: a bare identifier that matches no alias of the batch is *)
(* true iff the variable CARGO_CFG_<NAME> of its upper-cased name is set,  *)
(* whatever its value; an enabled feature of that name does not make it    *)
(* true.                                                                   *)
C3_UndeclaredIsCfgSet ==
    Ran =>
      \A i \in Aliases : \A n \in ReferencedNames :
         (IsReference(i, n) /\ Declarations(n) = {}) => Value(i) = FactBound(n)

\* C3 as claimed: such an identifier is true iff its name has a bound fact
\* or is an enabled feature.
C3_Original ==
    Ran =>
      \A i \in Aliases : \A n \in ReferencedNames :
         (IsReference(i, n) /\ Declarations(n) = {}) =>
            Value(i) = (FactBound(n) \/ FeatureEnabled(n))

\* feature foo is enabled, no alias is named foo, and dummy: {foo} is false
C3_Witness ==
    /\ pc = "done"
    /\ batch = <<Decl(s_dummy, <<Ident(s_foo)>>)>>
    /\ FeatureEnabled(s_foo) /\ ~FactBound(s_foo)
    /\ stdout = <<>>

----------------------------------------------------------------------------
(* C4, as amended: a reference inside alias A to a name declared only      *)
(* after A is resolved to that later alias: it has the value of the first  *)
(* declaration of that name, not that of the raw fact.                     *)
C4_ForwardResolvesToAlias ==
    Ran =>
      \A i \in Aliases : \A n \in ReferencedNames :
         ( /\ IsReference(i, n)
           /\ Declarations(n) # {}
           /\ \A j \in Declarations(n) : i < j )
         => /\ Value(i) = Value(FirstDeclaration(n))
            /\ conds[i] = conds[FirstDeclaration(n)]

\* C4 as claimed: such a reference is the raw-fact lookup on the name.
C4_Original ==
    Ran =>
      \A i \in Aliases : \A n \in ReferencedNames :
         ( /\ IsReference(i, n)
           /\ Declarations(n) # {}
           /\ \A j \in Declarations(n) : i < j )
         => Value(i) = FactBound(n)

\* wasm: {dummy} before dummy: {foo}: with the fact foo set and no fact
\* dummy, wasm is printed
C4_Witness ==
    /\ pc = "done"
    /\ batch = <<Decl(s_wasm, <<Ident(s_dummy)>>), Decl(s_dummy, <<Ident(s_foo)>>)>>
    /\ FactBound(s_foo) /\ ~FactBound(s_dummy)
    /\ stdout = <<format_rustc_cfg(s_wasm), format_rustc_cfg(s_dummy)>>

----------------------------------------------------------------------------
(* C5, as amended: when a name is declared more than once, every reference *)
(* to it, before, between or after its declarations, has the value (and    *)
(* the expansion) of its first declaration.                                *)
C5_FirstDeclarationWins ==
    Ran =>
      \A i \in Aliases : \A n \in ReferencedNames :
         (IsReference(i, n) /\ Cardinality(Declarations(n)) >= 2)
         => /\ Value(i) = Value(FirstDeclaration(n))
            /\ conds[i] = conds[FirstDeclaration(n)]

\* C5 as claimed: a reference after the second declaration has the value
\* of the second, one between the two has the value of the first.
C5_Original ==
    Ran =>
      \A i \in Aliases : \A n \in ReferencedNames :
         (IsReference(i, n) /\ Cardinality(Declarations(n)) = 2)
         => /\ i > LastDeclaration(n) => Value(i) = Value(LastDeclaration(n))
            /\ (FirstDeclaration(n) < i /\ i < LastDeclaration(n))
                  => Value(i) = Value(FirstDeclaration(n))

\* wasm is declared as target_arch = "wasm32" and then as feature = "foo";
\* with feature foo only, the second wasm is printed and dummy: {wasm},
\* declared last, is not
C5_Witness ==
    /\ pc = "done"
    /\ batch = <<Decl(s_wasm, KeyValue(s_target_arch, s_wasm32)),
                 Decl(s_wasm, KeyValue(kw_feature, s_foo)),
                 Decl(s_dummy, <<Ident(s_wasm)>>)>>
    /\ FeatureEnabled(s_foo) /\ ~FactBound(s_target_arch)
    /\ stdout = <<format_rustc_cfg(s_wasm)>>

----------------------------------------------------------------------------
(* The expression grammar, as the claims read it.                          *)

\* the pieces of s between its occurrences of sep
RECURSIVE SplitOn(_, _)
SplitOn(s, sep) ==
    IF \A k \in 1..Len(s) : s[k] # sep THEN <<s>>
    ELSE LET k == CHOOSE k \in 1..Len(s) :
                     s[k] = sep /\ \A j \in 1..(k - 1) : s[j] # sep
         IN  <<SubSeq(s, 1, k - 1)>> \o SplitOn(SubSeq(s, k + 1, Len(s)), sep)

\* one or more non-empty clauses separated by single commas
WellFormedList(toks) ==
    /\ Len(toks) > 0
    /\ toks[1] # Comma
    /\ toks[Len(toks)] # Comma
    /\ \A k \in 1..(Len(toks) - 1) : ~(toks[k] = Comma /\ toks[k + 1] = Comma)

\* an expression with no empty argument list and no trailing comma
RECURSIVE ValidExpression(_)
ValidExpression(toks) ==
    \/ Len(toks) = 1 /\ IsIdent(toks[1])
    \/ Len(toks) = 3 /\ IsIdent(toks[1]) /\ toks[2] = Eq /\ IsLiteral(toks[3])
    \/ /\ Len(toks) = 2
       /\ toks[1] \in {Ident(kw_all), Ident(kw_any)}
       /\ IsParen(toks[2])
       /\ WellFormedList(toks[2].toks)
       /\ LET clauses == SplitOn(toks[2].toks, Comma)
          IN  \A k \in 1..Len(clauses) : ValidExpression(clauses[k])
    \/ /\ Len(toks) = 2
       /\ toks[1] = Ident(kw_not)
       /\ IsParen(toks[2])
       /\ ValidExpression(toks[2].toks)

----------------------------------------------------------------------------
(* C6: all() is accepted and is true, any() is accepted and is false, in   *)
(* every environment.                                                      *)
C6_Claim ==
    /\ batch = <<Decl(s_x, Call(kw_all, <<>>))>>
          => (pc # "error" /\ (Ran => Value(1)))
    /\ batch = <<Decl(s_x, Call(kw_any, <<>>))>>
          => (pc # "error" /\ (Ran => ~Value(1)))

----------------------------------------------------------------------------
(* C7: an all(..) or any(..) whose argument list ends with a comma is      *)
(* accepted and has the value of the same list without that comma: x is    *)
(* declared with the comma and y without it.                               *)
C7_Claim ==
    ( /\ Len(batch) = 2
      /\ StripTrailingComma(batch[1].config) # batch[1].config
      /\ batch[2].config = StripTrailingComma(batch[1].config) )
    => (pc # "error" /\ (Ran => Value(1) = Value(2)))

----------------------------------------------------------------------------
(* C8: whatever the batch of well-formed expressions, one that refers to   *)
(* itself included, expansion ends and every alias gets a boolean: never   *)
(* an error.                                                               *)
C8_Claim ==
    (\A i \in Aliases : ValidExpression(batch[i].config)) => pc # "error"

----------------------------------------------------------------------------
(* C9: key = "value" is true iff value is one of the comma-separated       *)
(* entries of the fact bound to the normalized key, and a key with no      *)
(* bound fact has no entries: the test is then false for every value, the  *)
(* empty string included.                                                  *)
C9_Claim ==
    Ran =>
      \A i \in Aliases :
         ( /\ Len(batch[i].config) = 3
           /\ batch[i].config = KeyValue(batch[i].config[1].v, batch[i].config[3].v)
           /\ batch[i].config[1].v # kw_feature )
         => LET key == batch[i].config[1].v
                value == batch[i].config[3].v
                entries == IF FactBound(key) THEN SplitOn(env[CFG(key)], ",") ELSE <<>>
            IN  Value(i) = (\E k \in 1..Len(entries) : entries[k] = value)

----------------------------------------------------------------------------
(* C10: started as @parser_clause op [] [tokens], at every step the        *)
(* grouped clauses (each followed by the comma that closed it), the        *)
(* current clause and the unparsed rest are the original tokens in their   *)
(* order, and each step takes exactly one token of the rest.  When the     *)
(* list is one or more non-empty clauses separated by single commas, one   *)
(* of the three arms always applies, the steps reach @parser_emit, stay    *)
(* there, and the groups passed are the clauses between the top-level      *)
(* commas, in order: a comma inside a parenthesised group splits nothing.  *)

\* the argument list the parser was started on, its combinator, and the
\* invocation it has come to
Original == batch[1].config[2].toks

OriginalOp == batch[1].config[1].v

Root == conds[1]

\* each group followed by a comma
RECURSIVE WithCommas(_)
WithCommas(groups) ==
    IF groups = <<>> THEN <<>>
    ELSE Head(groups) \o <<Comma>> \o WithCommas(Tail(groups))

C10_Emitted == Root.rule = "@parser_emit"

C10_Steps ==
    /\ Root.op = OriginalOp
    /\ Root.rule = "@parser_clause" =>
          /\ WithCommas(Root.grouped) \o Root.current \o Root.rest = Original
          /\ Root.depth = 3 + (Len(Original) - Len(Root.rest))
          /\ WellFormedList(Original) => ENABLED NextClause
    /\ (C10_Emitted /\ WellFormedList(Original)) =>
          /\ Root.grouped = SplitOn(Original, Comma)
          /\ Root.depth = 3 + Len(Original) + 1

\* C10: every step keeps the tokens and their order, and a list of non-empty
\* clauses separated by single commas reaches @parser_emit, once, with its
\* top-level clauses as the groups
C10_ListParser ==
    /\ []C10_Steps
    /\ [][C10_Emitted => C10_Emitted']_vars
    /\ [](WellFormedList(Original) => <>C10_Emitted)

\* foo, any(foo, wasm) is grouped as {foo} {any(foo, wasm)}
C10_Witness ==
    /\ C10_Emitted
    /\ Original = <<Ident(s_foo), Comma, Ident(kw_any),
                    Paren(<<Ident(s_foo), Comma, Ident(s_wasm)>>)>>
    /\ Root.grouped = << <<Ident(s_foo)>>,
                         <<Ident(kw_any), Paren(<<Ident(s_foo), Comma, Ident(s_wasm)>>)>> >>

====
